---- MODULE Spec2Model ----
(***************************************************************************)
(* The job-processing engine of src/app.py: the jobs table, the enqueue    *)
(* endpoint and the process_pending endpoint (select queued jobs, create   *)
(* the Mux asset, create a public playback id, poll until ready, errored   *)
(* or the polling budget is spent), run by one or more request threads     *)
(* that share the table.                                                   *)
(* The loop of src/worker.py, which triggers process_pending and waits for *)
(* the response with a timeout, is the variable wk.                        *)
(*                                                                         *)
(* Each request owns a SQLAlchemy session (expire_on_commit is the         *)
(* default): an object is loaded by the query or by the first attribute    *)
(* read after a commit, a commit writes the attributes whose value differs *)
(* from the loaded one (every attribute set while the object is expired)   *)
(* and expires the object again.  A step of the model is one table read,   *)
(* one commit or one remote call, with the local code around it.           *)
(*                                                                         *)
(* mux_raw, url, title and the timestamps are never read by a decision of  *)
(* process_pending and are left out of the rows.                           *)
(***************************************************************************)
EXTENDS Integers, Sequences, FiniteSets, TLC

\* ------------------------------------------------------------- bounds
\* Jobs that enqueue_asset creates in one behaviour.
MaxJobs == 2
\* Jobs that enqueue_asset creates in one behaviour of Spec, where requests overlap.
RaceJobs == 1
\* Request threads that may run process_pending (at the same time under Spec).
NProcs == 2
\* Seconds one remote GET of the polling loop takes under Spec.
SlowCall == 146

\* ------------------------------------------------- program constants
timeout == 300
interval == 4
\* The default of the "max" query argument.
DefaultMax == 1
\* worker.py: the "max" it sends, the timeout of its request
worker_max == 2
trigger_timeout == 120

Procs == 1..NProcs
\* Values of the "max" query argument (default 1; worker.py sends 2).
MaxArgs == {0, 1, 2}

VARIABLES
    store,      \* the jobs table: a sequence of rows, row i is job id i
    pc,         \* pc[p]: where request p is in process_pending
    max_jobs,   \* max_jobs[p]: the "max" argument of request p
    queued,     \* queued[p]: the ids the query of request p returned
    idx,        \* idx[p]: position of the for loop in queued[p]
    processed,  \* processed[p]: the list the request returns
    so,         \* so[p]: the session's object for the job of the current pass
    ready,      \* ready[p]: the local flag of the polling loop
    elapsed,    \* elapsed[p]: time.time() - start
    resp,       \* resp[p]: the last reply about the asset (of the POST that created it,
                \* then of each GET) and the first playback id it lists
    callTime,   \* seconds a GET of the polling loop takes
    wk,         \* the worker loop of worker.py: where it is, the request thread
                \* serving its trigger, the seconds it has waited for the response
    hist        \* hist[p][i]: history of the pass on queued[p][i] (remote calls
                \* made, what they returned, the event that decided the pass)

vars == <<store, pc, max_jobs, queued, idx, processed, so, ready, elapsed, resp,
         callTime, wk, hist>>

\* ------------------------------------------------------------ values
None == <<>>
Attrs == {"status", "asset_id", "playback_id", "error"}
Terminal == {"ready", "errored"}

\* The row enqueue_asset inserts.
NewRow == [status |-> "queued", asset_id |-> None, playback_id |-> None, error |-> None]

\* Ids the provider hands out: one asset per POST /assets, one playback id per
\* POST playback-ids, and the first playback id a GET of the asset lists.
AssetId(j, p) == <<"ast", j, p>>
PbId(j, p) == <<"pb", j, p>>
ListedPb(a) == <<"pbl">> \o Tail(a)
NoResp == <<"none", None>>

\* hist[p][i].waits: what the status calls that did not decide the pass returned
\* so far: nothing yet, pending every time, a failure every time, or both.
Waits(w, k) == IF w \in {"none", k} THEN k ELSE "mixed"
NewLog == [createAsset |-> 0, createPlayback |-> 0, getAssetStatus |-> 0, waits |-> "none",
           asset |-> None, pb |-> None, pid |-> None, fate |-> "none"]

\* The worker loop: not running, or about to post its trigger, or waiting for
\* the response of request thread req since t seconds, or in its pause.
WorkerOff == [st |-> "off", req |-> 0, t |-> 0]
WorkerAt(s) == [st |-> s, req |-> 0, t |-> 0]
\* d seconds pass in request thread p
Tick(w, p, d) ==
    IF w.st = "wait" /\ w.req = p
    THEN [w EXCEPT !.t = IF @ + d < trigger_timeout THEN @ + d ELSE trigger_timeout]
    ELSE w
\* the response of request thread p comes too late for the worker
TimedOutOn(w, p) == w.st = "wait" /\ w.req = p /\ w.t >= trigger_timeout

\* ------------------------------------------------- the session object
NoPend == <<>>
Expired == [exp |-> TRUE, loc |-> NewRow, pend |-> NoPend]
Loaded(row) == [exp |-> FALSE, loc |-> row, pend |-> NoPend]
Load(s, row) == [s EXCEPT !.exp = FALSE, !.loc = row]
Get(s, a) == IF a \in DOMAIN s.pend THEN s.pend[a] ELSE s.loc[a]
Drop(f, a) == [x \in DOMAIN f \ {a} |-> f[x]]
Set(s, a, v) ==
    [s EXCEPT !.pend = IF ~s.exp /\ s.loc[a] = v THEN Drop(s.pend, a)
                       ELSE (a :> v) @@ s.pend]
Flush(s, row) == [a \in Attrs |-> IF a \in DOMAIN s.pend THEN s.pend[a] ELSE row[a]]

\* ------------------------------------------------------------- query
Min(a, b) == IF a < b THEN a ELSE b
IdSeq(db) == [i \in 1..Len(db) |-> i]
IsQueued(db, i) == db[i].status = "queued"
OrderedQueued(db) == SelectSeq(IdSeq(db), LAMBDA i : IsQueued(db, i))
Limit(s, n) == SubSeq(s, 1, Min(n, Len(s)))
\* (the query with order_by(created_at.desc()), as list_jobs has it)
Reverse(s) == [i \in 1..Len(s) |-> s[Len(s) + 1 - i]]
QueryQueued_Desc(db, max) == Limit(Reverse(OrderedQueued(db)), max)
QueryQueued(db, max) == Limit(OrderedQueued(db), max)

Job(p) == queued[p][idx[p]]

\* The state after start-up, but for the duration of the remote GETs.
InitVars ==
    /\ store = <<>>
    /\ pc = [p \in Procs |-> "idle"]
    /\ max_jobs = [p \in Procs |-> 0]
    /\ queued = [p \in Procs |-> <<>>]
    /\ idx = [p \in Procs |-> 0]
    /\ processed = [p \in Procs |-> <<>>]
    /\ so = [p \in Procs |-> Expired]
    /\ ready = [p \in Procs |-> FALSE]
    /\ elapsed = [p \in Procs |-> 0]
    /\ resp = [p \in Procs |-> NoResp]
    /\ hist = [p \in Procs |-> <<>>]

Init ==
    /\ InitVars
    /\ callTime = SlowCall
    /\ wk = WorkerOff

\* enqueue_asset
Enqueue(n) ==
    /\ Len(store) < n
    /\ store' = Append(store, NewRow)
    /\ UNCHANGED <<pc, queued, idx, processed, so, ready, elapsed, resp, callTime, wk, max_jobs, hist>>

\* process_pending, lines 148-151: the query
Select(p, max) ==
    /\ pc[p] = "idle"
    /\ max_jobs' = [max_jobs EXCEPT ![p] = max]
    /\ queued' = [queued EXCEPT ![p] = QueryQueued(store, max)]
    /\ processed' = [processed EXCEPT ![p] = <<>>]
    /\ hist' = [hist EXCEPT ![p] = <<>>]
    /\ IF queued'[p] = <<>>
       THEN /\ pc' = [pc EXCEPT ![p] = "return"]
            /\ UNCHANGED <<idx, so>>
       ELSE /\ pc' = [pc EXCEPT ![p] = "mark"]
            /\ idx' = [idx EXCEPT ![p] = 1]
            /\ so' = [so EXCEPT ![p] = Loaded(store[queued'[p][1]])]
    /\ UNCHANGED <<store, ready, elapsed, resp, callTime, wk>>

\* db.commit(): write the pending attributes of the pass's job, expire the object
Commit(p, s) ==
    /\ store' = [store EXCEPT ![Job(p)] = Flush(s, @)]
    /\ so' = [so EXCEPT ![p] = Expired]

\* lines 179, 205 and 248: without an asset id the pass makes no further call
\* (the guards left out)
ChkAssetPc_NoGuard(s) == "playback"
ChkAssetPc(s) == IF Get(s, "asset_id") # None THEN "playback" ELSE "noAsset"

\* lines 224-226: the first listed playback id is taken when none is stored
\* (the "not job.playback_id" test left out)
PlaybackFromReady_Overwrite(s, pid) == Set(s, "playback_id", pid)
PlaybackFromReady(s, pid) ==
    IF Get(s, "playback_id") = None THEN Set(s, "playback_id", pid) ELSE s

\* lines 205-210: the pass polls when the job has an asset id, starting its clock
PollStartPc(s) == IF Get(s, "asset_id") # None THEN "poll" ELSE "noAsset"

\* line 237 and the loop test of line 210
\* (while True: no budget)
AfterSleepPc_NoBudget(e) == "poll"
\* (the loop test inverted)
AfterSleepPc_Inverted(e) == IF e > timeout THEN "poll" ELSE "after"
AfterSleepPc(e) == IF e < timeout THEN "poll" ELSE "after"

Sleep(p) ==
    /\ elapsed' = [elapsed EXCEPT ![p] = @ + callTime + interval]
    /\ wk' = Tick(wk, p, callTime + interval)
    /\ pc' = [pc EXCEPT ![p] = AfterSleepPc(elapsed'[p])]
    /\ hist' = IF AfterSleepPc(elapsed'[p]) = "after"
              THEN [hist EXCEPT ![p][idx[p]].fate = "timeout"] ELSE hist

\* The first attribute read after a commit loads the row: job.id (153),
\* db.refresh (158), job.asset_id (179, 205, 212), job.playback_id (225),
\* job.status (244); the local code up to the next commit or remote call follows.
ReadPcs == {"mark", "refresh", "chkAsset", "pollStart", "poll", "readyPb", "after"}

Reload(p) ==
    /\ pc[p] \in ReadPcs
    /\ so[p].exp
    /\ pc[p] = "after" => ~ready[p]
    /\ LET s == Load(so[p], store[Job(p)]) IN
       /\ so' = [so EXCEPT ![p] =
                   IF pc[p] = "readyPb" THEN PlaybackFromReady(s, resp[p][2]) ELSE s]
       /\ pc' = [pc EXCEPT ![p] =
                   CASE pc[p] = "refresh" -> "create"
                     [] pc[p] = "chkAsset" -> ChkAssetPc(s)
                     [] pc[p] = "pollStart" -> PollStartPc(s)
                     [] pc[p] = "readyPb" ->
                          IF Get(s, "playback_id") = None THEN "commitReadyPb" ELSE "after"
                     [] OTHER -> pc[p]]
    /\ resp' = [resp EXCEPT ![p] =
                 IF pc[p] = "readyPb" \/ pc'[p] = "noAsset" THEN NoResp ELSE @]
    /\ UNCHANGED <<store, queued, idx, processed, ready, elapsed, callTime, wk, max_jobs, hist>>

\* lines 152-157: processed.append(job.id); job.status = "processing"; commit
Mark(p) ==
    /\ pc[p] = "mark"
    /\ ~so[p].exp
    /\ processed' = [processed EXCEPT ![p] = Append(@, Job(p))]
    /\ Commit(p, Set(so[p], "status", "processing"))
    /\ hist' = [hist EXCEPT ![p] = Append(@, NewLog)]
    /\ pc' = [pc EXCEPT ![p] = "refresh"]
    /\ UNCHANGED <<queued, idx, ready, elapsed, resp, callTime, wk, max_jobs>>

\* lines 161-175: POST /assets; the call raises, or its reply has no id, or an
\* id, or an id together with a public playback id the asset already has
CreateOutcomes == {"raise", "noid", "id", "id_pids"}
HasId(o) == o \in {"id", "id_pids"}

CreateAsset(p, o) ==
    /\ pc[p] = "create"
    /\ LET j == Job(p)
           a == IF HasId(o) THEN AssetId(j, p) ELSE None IN
       /\ hist' = [hist EXCEPT ![p][idx[p]].createAsset = @ + 1,
                               ![p][idx[p]].asset = a,
                               ![p][idx[p]].fate = IF HasId(o) THEN @ ELSE "createFailed"]
       /\ resp' = [resp EXCEPT ![p] =
                    IF o = "id_pids" THEN <<"created", ListedPb(a)>> ELSE NoResp]
       /\ IF o = "raise"
          THEN /\ pc' = [pc EXCEPT ![p] = "exc"]
               /\ so' = so
          ELSE /\ pc' = [pc EXCEPT ![p] = "commitAsset"]
               /\ so' = [so EXCEPT ![p] = Set(@, "asset_id", a)]
    /\ UNCHANGED <<store, queued, idx, processed, ready, elapsed, callTime, wk, max_jobs>>

\* line 176
CommitAsset(p) ==
    /\ pc[p] = "commitAsset"
    /\ Commit(p, so[p])
    /\ pc' = [pc EXCEPT ![p] = "chkAsset"]
    /\ UNCHANGED <<queued, idx, processed, ready, elapsed, resp, callTime, wk, max_jobs, hist>>

\* lines 180-202: POST playback-ids; a failure is logged and the pass goes on
PlaybackOutcomes == {"raise", "noid", "id"}

\* (the try of lines 180-202 left out: a failed call reaches the handler of 253)
Playback_Fatal(p, o) ==
    /\ pc[p] = "playback"
    /\ LET j == Job(p)
           b == IF o = "id" THEN PbId(j, p) ELSE None IN
       /\ hist' = [hist EXCEPT ![p][idx[p]].createPlayback = @ + 1,
                               ![p][idx[p]].pb = b]
       /\ IF o = "id"
          THEN /\ so' = [so EXCEPT ![p] = Set(@, "playback_id", b)]
               /\ pc' = [pc EXCEPT ![p] = "commitPb"]
          ELSE /\ so' = so
               /\ pc' = [pc EXCEPT ![p] = "exc"]
    /\ resp' = [resp EXCEPT ![p] = NoResp]
    /\ UNCHANGED <<store, queued, idx, processed, ready, elapsed, callTime, wk, max_jobs>>

Playback(p, o) ==
    /\ pc[p] = "playback"
    /\ LET j == Job(p)
           b == IF o = "id" THEN PbId(j, p) ELSE None IN
       /\ hist' = [hist EXCEPT ![p][idx[p]].createPlayback = @ + 1,
                               ![p][idx[p]].pb = b]
       /\ IF o = "id"
          THEN /\ so' = [so EXCEPT ![p] = Set(@, "playback_id", b)]
               /\ pc' = [pc EXCEPT ![p] = "commitPb"]
          ELSE /\ so' = so
               /\ pc' = [pc EXCEPT ![p] = PollStartPc(so[p])]
    /\ resp' = [resp EXCEPT ![p] = NoResp]
    /\ UNCHANGED <<store, queued, idx, processed, ready, elapsed, callTime, wk, max_jobs>>

\* line 199
CommitPb(p) ==
    /\ pc[p] = "commitPb"
    /\ Commit(p, so[p])
    /\ pc' = [pc EXCEPT ![p] = "pollStart"]
    /\ UNCHANGED <<queued, idx, processed, ready, elapsed, resp, callTime, wk, max_jobs, hist>>

\* lines 210-214: GET /assets/{asset_id}.  The call raises, or the reply is not
\* OK, or it carries a status, with or without playback ids.
PollOutcomes == {"raise", "notok", "pending", "ready_nopids", "ready_pids", "errored"}
\* A GET for a job whose asset_id column was cleared meanwhile finds no asset.
PollOutcomesFor(a) == IF a = None THEN {"raise", "notok"} ELSE PollOutcomes

\* (the try of lines 211-236 left out: a GET that raises reaches the handler of 253)
Poll_FatalRaise(p, o) ==
    /\ pc[p] = "poll"
    /\ ~so[p].exp
    /\ o \in PollOutcomesFor(Get(so[p], "asset_id"))
    /\ IF o = "raise"
       THEN /\ pc' = [pc EXCEPT ![p] = "exc"]
            /\ hist' = [hist EXCEPT ![p][idx[p]].getAssetStatus = @ + 1,
                                  ![p][idx[p]].waits = Waits(@, "failed")]
            /\ resp' = resp
       ELSE /\ resp' = [resp EXCEPT ![p] =
                         <<o, IF o = "ready_pids"
                              THEN ListedPb(Get(so[p], "asset_id")) ELSE None>>]
            /\ pc' = [pc EXCEPT ![p] = "commitPoll"]
            /\ hist' = [hist EXCEPT ![p][idx[p]].getAssetStatus = @ + 1,
                                    ![p][idx[p]].waits =
                                        CASE o = "pending" -> Waits(@, "pending")
                                          [] o = "notok" -> Waits(@, "failed")
                                          [] OTHER -> @]
    /\ UNCHANGED <<store, queued, idx, processed, so, ready, elapsed, callTime, wk, max_jobs>>

Poll(p, o) ==
    /\ pc[p] = "poll"
    /\ ~so[p].exp
    /\ o \in PollOutcomesFor(Get(so[p], "asset_id"))
    /\ IF o = "raise"
       THEN /\ elapsed' = [elapsed EXCEPT ![p] = @ + callTime + interval]
            /\ wk' = Tick(wk, p, callTime + interval)
            /\ pc' = [pc EXCEPT ![p] = AfterSleepPc(elapsed'[p])]
            /\ hist' = [hist EXCEPT ![p][idx[p]].getAssetStatus = @ + 1,
                                  ![p][idx[p]].waits = Waits(@, "failed"),
                                  ![p][idx[p]].fate =
                                      IF AfterSleepPc(elapsed'[p]) = "after"
                                      THEN "timeout" ELSE @]
            /\ resp' = resp
       ELSE /\ resp' = [resp EXCEPT ![p] =
                         <<o, IF o = "ready_pids"
                              THEN ListedPb(Get(so[p], "asset_id")) ELSE None>>]
            /\ pc' = [pc EXCEPT ![p] = "commitPoll"]
            /\ hist' = [hist EXCEPT ![p][idx[p]].getAssetStatus = @ + 1,
                                    ![p][idx[p]].waits =
                                        CASE o = "pending" -> Waits(@, "pending")
                                          [] o = "notok" -> Waits(@, "failed")
                                          [] OTHER -> @]
            /\ UNCHANGED <<elapsed, wk>>
    /\ UNCHANGED <<store, queued, idx, processed, so, ready, callTime, max_jobs>>

\* lines 216-237: commit the snapshot, then act on the reply
CommitPoll(p) ==
    /\ pc[p] = "commitPoll"
    /\ Commit(p, so[p])
    /\ resp' = [resp EXCEPT ![p] = IF @[1] = "ready_pids" THEN @ ELSE NoResp]
    /\ CASE resp[p][1] \in {"ready_nopids", "ready_pids"} ->
              /\ ready' = [ready EXCEPT ![p] = TRUE]
              /\ pc' = [pc EXCEPT ![p] =
                          IF resp[p][1] = "ready_pids" THEN "readyPb" ELSE "after"]
              /\ hist' = [hist EXCEPT ![p][idx[p]].fate = "ready",
                                    ![p][idx[p]].pid = resp[p][2]]
              /\ UNCHANGED <<elapsed, wk>>
         [] resp[p][1] = "errored" ->
              /\ pc' = [pc EXCEPT ![p] = "errored1"]
              /\ hist' = [hist EXCEPT ![p][idx[p]].fate = "errored"]
              /\ UNCHANGED <<ready, elapsed, wk>>
         [] OTHER ->
              /\ Sleep(p)
              /\ ready' = ready
    /\ UNCHANGED <<queued, idx, processed, callTime, max_jobs>>

\* (the commit of line 227 left out: the playback id waits for the next commit)
CommitReadyPb_NoCommit(p) ==
    /\ pc[p] = "commitReadyPb"
    /\ pc' = [pc EXCEPT ![p] = "after"]
    /\ UNCHANGED <<store, so, queued, idx, processed, ready, elapsed, resp, callTime, wk,
                   max_jobs, hist>>

\* line 227
CommitReadyPb(p) ==
    /\ pc[p] = "commitReadyPb"
    /\ Commit(p, so[p])
    /\ pc' = [pc EXCEPT ![p] = "after"]
    /\ UNCHANGED <<queued, idx, processed, ready, elapsed, resp, callTime, wk, max_jobs, hist>>

\* lines 229-233
PollErrored(p) ==
    /\ pc[p] = "errored1"
    /\ Commit(p, Set(Set(so[p], "status", "errored"), "error", <<"mux">>))
    /\ pc' = [pc EXCEPT ![p] = "after"]
    /\ UNCHANGED <<queued, idx, processed, ready, elapsed, resp, callTime, wk, max_jobs, hist>>

\* lines 238-241
AfterReady(p) ==
    /\ pc[p] = "after"
    /\ ready[p]
    /\ Commit(p, Set(so[p], "status", "ready"))
    /\ pc' = [pc EXCEPT ![p] = "passEnd"]
    /\ UNCHANGED <<queued, idx, processed, ready, elapsed, resp, callTime, wk, max_jobs, hist>>

\* (lines 242-247 without the test of line 244)
AfterTimeout_NoGuard(p) ==
    /\ pc[p] = "after"
    /\ ~ready[p]
    /\ ~so[p].exp
    /\ Commit(p, Set(Set(so[p], "status", "processing"),
                     "error", Append(Get(so[p], "error"), "timeout")))
    /\ pc' = [pc EXCEPT ![p] = "passEnd"]
    /\ UNCHANGED <<queued, idx, processed, ready, elapsed, resp, callTime, wk, max_jobs, hist>>

\* lines 242-247
AfterTimeout(p) ==
    /\ pc[p] = "after"
    /\ ~ready[p]
    /\ ~so[p].exp
    /\ IF Get(so[p], "status") # "errored"
       THEN Commit(p, Set(Set(so[p], "status", "processing"),
                          "error", Append(Get(so[p], "error"), "timeout")))
       ELSE UNCHANGED <<store, so>>
    /\ pc' = [pc EXCEPT ![p] = "passEnd"]
    /\ UNCHANGED <<queued, idx, processed, ready, elapsed, resp, callTime, wk, max_jobs, hist>>

\* lines 248-252
NoAsset(p) ==
    /\ pc[p] = "noAsset"
    /\ Commit(p, Set(Set(so[p], "status", "errored"), "error", <<"noid">>))
    /\ pc' = [pc EXCEPT ![p] = "passEnd"]
    /\ UNCHANGED <<queued, idx, processed, ready, elapsed, resp, callTime, wk, max_jobs, hist>>

\* (the handler outside the for loop: the first exception ends the batch)
Exc_Abort(p) ==
    /\ pc[p] = "exc"
    /\ Commit(p, Set(Set(so[p], "status", "errored"), "error", <<"exc">>))
    /\ pc' = [pc EXCEPT ![p] = "return"]
    /\ UNCHANGED <<queued, idx, processed, ready, elapsed, resp, callTime, wk, max_jobs, hist>>

\* lines 253-257
Exc(p) ==
    /\ pc[p] = "exc"
    /\ Commit(p, Set(Set(so[p], "status", "errored"), "error", <<"exc">>))
    /\ pc' = [pc EXCEPT ![p] = "passEnd"]
    /\ UNCHANGED <<queued, idx, processed, ready, elapsed, resp, callTime, wk, max_jobs, hist>>

\* line 152: the for loop takes the next job, or ends
NextJob(p) ==
    /\ pc[p] = "passEnd"
    /\ IF idx[p] < Len(queued[p])
       THEN /\ idx' = [idx EXCEPT ![p] = @ + 1]
            /\ pc' = [pc EXCEPT ![p] = "mark"]
       ELSE /\ idx' = idx
            /\ pc' = [pc EXCEPT ![p] = "return"]
    /\ so' = [so EXCEPT ![p] = Expired]
    /\ ready' = [ready EXCEPT ![p] = FALSE]
    /\ elapsed' = [elapsed EXCEPT ![p] = 0]
    /\ UNCHANGED <<store, queued, processed, resp, callTime, wk, max_jobs, hist>>

\* line 259
Return(p) ==
    /\ pc[p] = "return"
    /\ ~TimedOutOn(wk, p)
    /\ wk' = IF wk.st = "wait" /\ wk.req = p THEN WorkerAt("sleep") ELSE wk
    /\ pc' = [pc EXCEPT ![p] = "idle"]
    /\ queued' = [queued EXCEPT ![p] = <<>>]
    /\ processed' = [processed EXCEPT ![p] = <<>>]
    /\ idx' = [idx EXCEPT ![p] = 0]
    /\ hist' = [hist EXCEPT ![p] = <<>>]
    /\ max_jobs' = [max_jobs EXCEPT ![p] = 0]
    /\ UNCHANGED <<store, so, ready, elapsed, resp, callTime>>

\* The steps of a request once its query has run.
Step(p) ==
    \/ Reload(p)
    \/ Mark(p)
    \/ \E o \in CreateOutcomes : CreateAsset(p, o)
    \/ CommitAsset(p)
    \/ \E o \in PlaybackOutcomes : Playback(p, o)
    \/ CommitPb(p)
    \/ \E o \in PollOutcomes : Poll(p, o)
    \/ CommitPoll(p)
    \/ CommitReadyPb(p)
    \/ PollErrored(p)
    \/ AfterReady(p)
    \/ AfterTimeout(p)
    \/ NoAsset(p)
    \/ Exc(p)
    \/ NextJob(p)
    \/ Return(p)

\* Requests served by threads: a request may arrive while another is running.
Next ==
    \/ Enqueue(RaceJobs)
    \/ \E p \in Procs, m \in MaxArgs : Select(p, m)
    \/ \E p \in Procs : Step(p)

Spec == Init /\ [][Next]_vars

\* Requests served one at a time: a request starts when no other is running.
SeqSelect(p, m) ==
    /\ \A q \in Procs : pc[q] = "idle"
    /\ Select(p, m)

SeqNext ==
    \/ Enqueue(MaxJobs)
    \/ \E p \in Procs, m \in MaxArgs : SeqSelect(p, m)
    \/ \E p \in Procs : Step(p)

SeqSpec == Init /\ [][SeqNext]_vars

\* The worker loop: it keeps sending requests with max >= 1, and a request that
\* has started keeps running (every remote call returns or raises within its
\* own timeout, every sleep ends).
WorkerTrigger == \E p \in Procs, m \in MaxArgs \ {0} : SeqSelect(p, m)

LiveNext ==
    \/ Enqueue(MaxJobs)
    \/ WorkerTrigger
    \/ \E p \in Procs : Step(p)

LiveSpec ==
    /\ Init
    /\ [][LiveNext]_vars
    /\ WF_vars(WorkerTrigger)
    /\ \A p \in Procs : WF_vars(Step(p))

\* One worker loop against the threaded server, the provider's GETs taking a
\* negligible time.  worker.py line 12: the trigger goes to a free request
\* thread, which runs the query; the worker waits for the response.
WorkerPost(p) ==
    /\ wk.st = "post"
    /\ pc[p] = "idle"
    /\ wk' = [st |-> "wait", req |-> p, t |-> 0]
    /\ UNCHANGED <<store, pc, max_jobs, queued, idx, processed, so, ready, elapsed,
                   resp, callTime, hist>>

WorkerSelect(p) ==
    /\ wk.st = "wait"
    /\ wk.req = p
    /\ Select(p, worker_max)

\* worker.py lines 12 and 17-18: no response within the timeout; the exception
\* is printed, the request goes on running on the server
WorkerTimeout ==
    /\ wk.st = "wait"
    /\ wk.t >= trigger_timeout
    /\ wk' = WorkerAt("sleep")
    /\ UNCHANGED <<store, pc, max_jobs, queued, idx, processed, so, ready, elapsed,
                   resp, callTime, hist>>

\* worker.py line 19: time.sleep(5), then the next round
WorkerWake ==
    /\ wk.st = "sleep"
    /\ wk' = WorkerAt("post")
    /\ UNCHANGED <<store, pc, max_jobs, queued, idx, processed, so, ready, elapsed,
                   resp, callTime, hist>>

WorkerInit ==
    /\ InitVars
    /\ callTime = 0
    /\ wk = WorkerAt("post")

WorkerNext ==
    \/ Enqueue(RaceJobs)
    \/ \E p \in Procs : WorkerPost(p)
    \/ \E p \in Procs : WorkerSelect(p)
    \/ WorkerTimeout
    \/ WorkerWake
    \/ \E p \in Procs : Step(p)

WorkerSpec == WorkerInit /\ [][WorkerNext]_vars

\* Requests with the default "max", served one at a time, against a provider
\* whose GETs take a negligible time: the polling loop runs on its sleeps alone.
PollInit ==
    /\ InitVars
    /\ callTime = 0
    /\ wk = WorkerOff

PollNext ==
    \/ Enqueue(RaceJobs)
    \/ \E p \in Procs : SeqSelect(p, DefaultMax)
    \/ \E p \in Procs : Step(p)

PollSpec == PollInit /\ [][PollNext]_vars

\* ------------------------------------------------------------ claims
JobIds == 1..Len(store)
Range(s) == {s[i] : i \in 1..Len(s)}
Running(p) == pc[p] \notin {"idle", "return"}

\* The passes of request p that have run to their end.
Finished(p) ==
    {i \in 1..Len(hist[p]) : i < idx[p] \/ pc[p] \in {"passEnd", "return"}}

\* Request p has selected job j and has not finished with it.
InFlight(p, j) ==
    /\ Running(p)
    /\ \E i \in 1..Len(queued[p]) :
          /\ queued[p][i] = j
          /\ i >= idx[p]
          /\ i = idx[p] => pc[p] # "passEnd"

\* The step makes a remote call for job j.
CallsOf(h) == h.createAsset + h.createPlayback + h.getAssetStatus
RemoteCallFor(j) ==
    \E p \in Procs :
       /\ pc[p] \in {"create", "playback", "poll"}
       /\ Job(p) = j
       /\ CallsOf(hist'[p][idx[p]]) > CallsOf(hist[p][idx[p]])

StatusEdges == {<<"queued", "processing">>, <<"processing", "ready">>,
                <<"processing", "errored">>}

\* C1: whatever requests run, also overlapping ones, the stored status of a job
\* changes only along queued->processing, processing->ready and
\* processing->errored.
C1_StatusMonotonic ==
    [][\A j \in JobIds :
          store'[j].status # store[j].status
             => <<store[j].status, store'[j].status>> \in StatusEdges]_vars

\* C2: a job left in processing with the timeout note by a pass that ran out of
\* polling budget, and that no request holds any more, is picked up again by
\* the query of a later request.
TimedOut(j) ==
    /\ store[j].status = "processing"
    /\ store[j].error # None
    /\ store[j].error[Len(store[j].error)] = "timeout"
\* Request p has finished a pass on job j in which every poll reported pending.
TimedOutPending(p, j) ==
    \E i \in Finished(p) :
       /\ queued[p][i] = j
       /\ hist[p][i].fate = "timeout"
       /\ hist[p][i].waits = "pending"
C2_TimedOutJobIsPickedUp ==
    \A j \in JobIds :
       (/\ \E p \in Procs : TimedOutPending(p, j)
        /\ TimedOut(j)
        /\ \A p \in Procs : ~InFlight(p, j))
          => j \in Range(QueryQueued(store, Len(store)))

\* C3: at most one pass is in flight for a job, also when requests overlap.
C3_OnePassPerJob ==
    \A j \in JobIds : Cardinality({p \in Procs : InFlight(p, j)}) <= 1

\* C8: once the stored asset_id of a job is set, no update changes or clears it,
\* whatever requests run, also overlapping ones.
C8_AssetIdWriteOnce ==
    [][\A j \in JobIds :
          store[j].asset_id # None => store'[j].asset_id = store[j].asset_id]_vars

\* C9: once the stored playback_id of a job is set, no update changes it,
\* whatever requests run, also overlapping ones.
C9_PlaybackIdWriteOnce ==
    [][\A j \in JobIds :
          store[j].playback_id # None
             => store'[j].playback_id = store[j].playback_id]_vars

\* C10: once the stored status of a job is ready or errored, no step of any
\* request makes a remote call for it or changes its row.
C10_TerminalIsNoOp ==
    [][\A j \in JobIds :
          store[j].status \in Terminal
             => store'[j] = store[j] /\ ~RemoteCallFor(j)]_vars

\* The stored status a pass leaves, by the event that decided it.
ExpectedStatus(f) ==
    CASE f = "createFailed" -> "errored"
      [] f = "errored" -> "errored"
      [] f = "ready" -> "ready"
      [] f = "timeout" -> "processing"
      [] OTHER -> "undecided"

\* C4: when createAsset returned an id and a poll returned ready with a
\* playback id listed, the finished pass has stored status ready, the asset id
\* createAsset returned, and as playback id the one created earlier in the pass,
\* or else the first one the ready reply lists.
C4_ReadyPass ==
    \A p \in Procs : \A i \in Finished(p) :
       LET h == hist[p][i]
           r == store[queued[p][i]] IN
       (h.asset # None /\ h.fate = "ready" /\ h.pid # None)
          => /\ r.status = "ready"
             /\ r.asset_id = h.asset
             /\ r.playback_id = IF h.pb # None THEN h.pb ELSE h.pid

C4_Witness ==
    \E p \in Procs : \E i \in Finished(p) :
       LET h == hist[p][i]
           r == store[queued[p][i]] IN
       /\ h.asset # None /\ h.fate = "ready" /\ h.pid # None /\ h.pb = None
       /\ r.status = "ready" /\ r.asset_id = h.asset /\ r.playback_id = h.pid

\* C5: when createAsset raised or returned no id, the pass makes no playback-id
\* and no status call, and ends with the job stored errored, without asset id
\* and with an error text.
CreateFailed(h) == h.createAsset > 0 /\ h.asset = None
C5_CreateFailed ==
    \A p \in Procs : \A i \in 1..Len(hist[p]) :
       LET h == hist[p][i]
           r == store[queued[p][i]] IN
       CreateFailed(h)
          => /\ h.createPlayback = 0 /\ h.getAssetStatus = 0
             /\ i \in Finished(p)
                  => r.status = "errored" /\ r.asset_id = None /\ r.error # None

C5_Witness ==
    \E p \in Procs : \E i \in Finished(p) :
       /\ CreateFailed(hist[p][i])
       /\ store[queued[p][i]].status = "errored"
       /\ store[queued[p][i]].error = <<"noid">>

\* C6: when a request returns, every job it selected is in the returned list
\* and carries the status its own pass led to, whatever happened to the others.
C6_BatchIsolation ==
    \A p \in Procs :
       pc[p] = "return"
          => /\ processed[p] = queued[p]
             /\ Len(hist[p]) = Len(queued[p])
             /\ \A i \in 1..Len(queued[p]) :
                   store[queued[p][i]].status = ExpectedStatus(hist[p][i].fate)

C6_Witness ==
    \E p \in Procs :
       /\ pc[p] = "return"
       /\ processed[p] = <<1, 2>>
       /\ hist[p][1].fate = "createFailed" /\ store[1].status = "errored"
       /\ hist[p][2].fate = "ready" /\ store[2].status = "ready"

\* C7: the query returns the min(max, number queued) oldest queued jobs in
\* creation order; the request works through them in that order, one pass
\* ending before the next begins, and returns exactly their ids.
SelectionOK(db, m, q) ==
    /\ Len(q) = Min(m, Cardinality({j \in 1..Len(db) : db[j].status = "queued"}))
    /\ \A i \in 1..Len(q) : db[q[i]].status = "queued"
    /\ \A i \in 1..(Len(q) - 1) : q[i] < q[i + 1]
    /\ \A j \in 1..Len(db) :
          (db[j].status = "queued" /\ j \notin Range(q)) => \A i \in 1..Len(q) : q[i] < j
InOrder(p) ==
    pc[p] # "idle"
       => /\ Len(processed[p]) = IF pc[p] = "mark" THEN idx[p] - 1 ELSE idx[p]
          /\ processed[p] = SubSeq(queued[p], 1, Len(processed[p]))
          /\ Len(hist[p]) = Len(processed[p])
          /\ \A i \in 1..Len(queued[p]) :
                /\ i < idx[p] => hist[p][i].fate # "none"
                /\ i > idx[p] => store[queued[p][i]].status = "queued"
          /\ pc[p] = "return" => processed[p] = queued[p]
C7_FifoSelection ==
    [][\A p \in Procs :
          /\ (pc[p] = "idle" /\ pc'[p] # "idle")
                => SelectionOK(store, max_jobs'[p], queued'[p])
          /\ InOrder(p)']_vars

C7_Witness ==
    \E p \in Procs :
       /\ pc[p] = "return"
       /\ max_jobs[p] = 1
       /\ processed[p] = <<1>>
       /\ Len(store) = 2 /\ store[2].status = "queued"

\* C11: with GETs of negligible duration, a pass in which createAsset returned
\* an id and every status call reported pending ends with the job stored
\* processing, the timeout note last in its error text, after timeout \div
\* interval status calls, give or take one.
AllPending(h) == h.asset # None /\ h.waits = "pending" /\ h.fate \notin {"ready", "errored"}
C11_PollCount ==
    \A p \in Procs : \A i \in Finished(p) :
       LET h == hist[p][i] IN
       AllPending(h)
          => /\ h.fate = "timeout"
             /\ TimedOut(queued[p][i])
             /\ h.getAssetStatus >= (timeout \div interval) - 1
             /\ h.getAssetStatus <= (timeout \div interval) + 1

C11_Witness ==
    \E p \in Procs : \E i \in Finished(p) :
       /\ AllPending(hist[p][i])
       /\ hist[p][i].getAssetStatus = 75
       /\ TimedOut(queued[p][i])

\* C12: in every reachable state of the table, also with overlapping requests,
\* a job stored ready has an asset id, and a job whose pass got no asset id
\* from createAsset is stored errored at the end of the pass, never ready.
C12_ReadyHasAsset ==
    /\ \A j \in JobIds : store[j].status = "ready" => store[j].asset_id # None
    /\ \A p \in Procs : \A i \in 1..Len(hist[p]) :
          CreateFailed(hist[p][i])
             => /\ store[queued[p][i]].status # "ready"
                /\ i \in Finished(p) => store[queued[p][i]].status = "errored"

\* C13: no job is stored ready without a playback id, whatever the playback-id
\* call and the playback_ids of the ready reply were.
C13_ReadyHasPlayback ==
    \A j \in JobIds : store[j].status = "ready" => store[j].playback_id # None

\* C14: a pass calls POST playback-ids only when the reply that created the
\* asset listed no playback id and the job has no playback id.
PlaybackCall(p) ==
    /\ pc[p] = "playback"
    /\ hist'[p][idx[p]].createPlayback > hist[p][idx[p]].createPlayback
C14_NoSecondPlayback ==
    [][\A p \in Procs :
          PlaybackCall(p) => resp[p][2] = None /\ Get(so[p], "playback_id") = None]_vars

\* C15: a pass whose playback-id call raised or returned no id goes on to poll
\* the asset status; the job is stored errored only if a poll reported errored,
\* and when a poll returns ready with a playback id listed the job is stored
\* ready with that playback id.
PlaybackFailed(h) == h.createPlayback > 0 /\ h.pb = None
C15_PlaybackFailureNotFatal ==
    \A p \in Procs : \A i \in Finished(p) :
       LET h == hist[p][i]
           r == store[queued[p][i]] IN
       PlaybackFailed(h)
          => /\ h.getAssetStatus >= 1
             /\ r.status = "errored" => h.fate = "errored"
             /\ (h.fate = "ready" /\ h.pid # None)
                   => r.status = "ready" /\ r.playback_id = h.pid

C15_Witness ==
    \E p \in Procs : \E i \in Finished(p) :
       /\ PlaybackFailed(hist[p][i])
       /\ hist[p][i].fate = "ready"
       /\ hist[p][i].pid # None
       /\ store[queued[p][i]].status = "ready"
       /\ store[queued[p][i]].playback_id = hist[p][i].pid

\* C16: a status call that raises or is answered not OK leaves the stored
\* status as it is, the pass sleeps one interval and polls again while the
\* budget lasts; and a pass decided by a ready reply ends with the job stored
\* ready, one decided by an errored reply with the job stored errored, however
\* many status calls failed before.
TransientFailure(p) ==
    \/ /\ pc[p] = "poll"
       /\ hist'[p][idx[p]].getAssetStatus > hist[p][idx[p]].getAssetStatus
       /\ pc'[p] # "commitPoll"
    \/ /\ pc[p] = "commitPoll"
       /\ resp[p][1] = "notok"
       /\ pc'[p] # "commitPoll"
DecidedByReply(p) ==
    \A i \in Finished(p) :
       hist[p][i].fate \in {"ready", "errored"}
          => store[queued[p][i]].status = hist[p][i].fate
C16_TransientPollFailure ==
    [][\A p \in Procs :
          /\ TransientFailure(p)
                => /\ store'[Job(p)].status = store[Job(p)].status
                   /\ elapsed'[p] = elapsed[p] + callTime + interval
                   /\ pc'[p] = IF elapsed'[p] < timeout THEN "poll" ELSE "after"
          /\ DecidedByReply(p)']_vars

C16_Witness ==
    \E p \in Procs : \E i \in Finished(p) :
       /\ hist[p][i].waits = "failed"
       /\ hist[p][i].getAssetStatus = timeout \div interval
       /\ hist[p][i].fate = "errored"
       /\ store[queued[p][i]].status = "errored"

\* C17: once a status call of a pass has reported errored, the pass makes no
\* further status call, and from the end of the polling loop on the job is
\* stored errored with the provider's error detail as its error text: the code
\* after the loop neither puts it back to processing nor appends the timeout
\* note.
ErroredStored(p) ==
    \A i \in 1..Len(hist[p]) :
       (hist[p][i].fate = "errored" /\ (i \in Finished(p) \/ pc[p] = "after"))
          => /\ store[queued[p][i]].status = "errored"
             /\ store[queued[p][i]].error = <<"mux">>
C17_PollErrored ==
    [][\A p \in Procs :
          /\ \A i \in 1..Len(hist[p]) :
                (hist[p][i].fate = "errored" /\ i <= Len(hist'[p]))
                   => hist'[p][i].getAssetStatus = hist[p][i].getAssetStatus
          /\ ErroredStored(p)']_vars

C17_Witness ==
    \E p \in Procs :
       /\ pc[p] = "passEnd"
       /\ hist[p][idx[p]].fate = "errored"
       /\ store[Job(p)].status = "errored"
       /\ store[Job(p)].error = <<"mux">>

\* C18: within a pass every remote call follows the write it depends on:
\* POST /assets is made with the job stored processing; POST playback-ids and
\* every status GET are made with the asset id of the pass stored; the write of
\* status ready changes no other column, the playback id taken from the ready
\* reply being stored already; and the stored row only advances.
CreateCall(p) ==
    /\ pc[p] = "create"
    /\ hist'[p][idx[p]].createAsset > hist[p][idx[p]].createAsset
StatusCall(p) ==
    /\ pc[p] = "poll"
    /\ hist'[p][idx[p]].getAssetStatus > hist[p][idx[p]].getAssetStatus
C18_PersistBeforeNextStep ==
    [][/\ \A p \in Procs :
             /\ CreateCall(p) => store[Job(p)].status = "processing"
             /\ (PlaybackCall(p) \/ StatusCall(p))
                   => /\ store[Job(p)].asset_id # None
                      /\ store[Job(p)].asset_id = hist[p][idx[p]].asset
             /\ (pc[p] = "after" /\ store'[Job(p)].status = "ready")
                   => /\ store'[Job(p)].playback_id = store[Job(p)].playback_id
                      /\ (hist[p][idx[p]].pb = None /\ hist[p][idx[p]].pid # None)
                            => store[Job(p)].playback_id = hist[p][idx[p]].pid
       /\ \A j \in JobIds :
             /\ store'[j].status # store[j].status
                   => <<store[j].status, store'[j].status>> \in StatusEdges
             /\ store[j].asset_id # None => store'[j].asset_id = store[j].asset_id
             /\ store[j].playback_id # None
                   => store'[j].playback_id = store[j].playback_id]_vars

C18_Witness ==
    \E p \in Procs :
       /\ pc[p] = "after"
       /\ ready[p]
       /\ store[Job(p)].status = "processing"
       /\ hist[p][idx[p]].pb = None
       /\ hist[p][idx[p]].pid # None
       /\ store[Job(p)].playback_id = hist[p][idx[p]].pid

\* C19: a pass makes at most timeout \div (interval + duration of a GET) + 1
\* status calls whatever the provider answers, every request that has started
\* returns, and, the worker loop sending requests with max >= 1 for ever, every
\* job stored queued eventually is no longer queued, also when jobs are
\* enqueued meanwhile.
PollBound == timeout \div (interval + callTime) + 1
BoundedPolls ==
    \A p \in Procs : \A i \in 1..Len(hist[p]) : hist[p][i].getAssetStatus <= PollBound
StoredQueued(j) == j <= Len(store) /\ store[j].status = "queued"
C19_QueueLiveness ==
    /\ []BoundedPolls
    /\ \A p \in Procs : (pc[p] # "idle") ~> (pc[p] = "idle")
    /\ \A j \in 1..(MaxJobs + 1) : StoredQueued(j) ~> ~StoredQueued(j)

C19_Witness ==
    /\ Len(store) = 2
    /\ store[1].status = "processing"
    /\ store[2].status = "processing"
    /\ \E p \in Procs :
          /\ pc[p] = "passEnd"
          /\ max_jobs[p] = 1
          /\ Job(p) = 2
          /\ hist[p][idx[p]].fate = "timeout"
          /\ hist[p][idx[p]].getAssetStatus = PollBound - 1

\* C20: with one worker loop, no two requests to process_pending run at the
\* same time: the worker sends its next trigger only when the request of the
\* previous one has returned.
C20_OneRequestAtATime ==
    Cardinality({p \in Procs : pc[p] # "idle"}) <= 1
====
